---- MODULE Spec2Model ----
(***************************************************************************)
(* Planet delivery (TP2/planet_delivery.py): planets spawn items and       *)
(* auction them to co-located ships with a contract-net protocol; ships    *)
(* carry the awarded item along shortest paths of a road network whose     *)
(* edge speeds change at random.                                           *)
(*                                                                         *)
(* Seven specifications share the module:                                  *)
(*   Spec        the simulation: PlanetDelivery.step activating the road   *)
(*               network, the ships and the planets once per tick in any   *)
(*               order; a message sent is on its way until RecvBehav has   *)
(*               put it in msg_box, so the drain of a step takes the       *)
(*               oldest k of the messages sent to the agent, for any k     *)
(*               that leaves none on its way for MaxDelay ticks or more;   *)
(*   SpecLate    PlanetManager.step from the states in which a proposal    *)
(*               that was several ticks on its way is in msg_box;          *)
(*   SpecReturn  the simulation from the tick of a first award on, for     *)
(*               MaxReturnSteps ticks in all;                              *)
(*   SpecRoute   the road network and one carrying ship on every           *)
(*               connected graph over MaxNetPlanets planets;               *)
(*   SpecNet     SpaceRoadNetwork.__init__ statement by statement,         *)
(*               followed by SpaceRoadNetwork.step;                        *)
(*   SpecSelect  the winner selection of PlanetManager.step on bid lists;  *)
(*   SpecMailbox the mutex protocol between RecvBehav.run and the drain    *)
(*               of msg_box in step, statement by statement.               *)
(*                                                                         *)
(* Abstractions.  Coordinates: planets lie at pairwise distinct points, a  *)
(* planet's number stands for its (x, y).  A ship is either at a planet or *)
(* on the straight segment between previous_point and waypoint, so its     *)
(* (x, y) is the record [a, b, off]: off units from planet a towards       *)
(* planet b (a = b, off = 0 at a planet).  Distances are whole numbers and *)
(* position arithmetic is exact.  Speed modifiers 0.0, 0.5, 1.0 are kept   *)
(* in tenths (0, 5, 10).  uuid1 values are the numbers 1, 2, ... in the    *)
(* order they are drawn.  An uncaught exception ends the run: the state    *)
(* keeps what the statements before the raise did and nothing runs after.  *)
(***************************************************************************)
EXTENDS Integers, Sequences, FiniteSets, TLC

\* ------------------------------------------------------------------ bounds
\* The runs of the simulation: built with n_planets >= 2 and n_ships >= 1,
\* spawning at least one item, with n_planets + n_ships + items <= MaxSize.
MaxSize == 5
\* Ticks of one run of the simulation (the source stops at 300).
MaxSteps == 8
\* Roads whose speed SpaceRoadNetwork.step resamples in one run of the simulation.
MaxIssues == 1
\* Ticks a message can be on its way: one sent in tick T is in msg_box at the
\* drains of its addressee from tick T + MaxDelay on.
MaxDelay == 1
\* Largest n_planets given to SpaceRoadNetwork.__init__ under SpecNet.
MaxNetPlanets == 4
\* Calls of SpaceRoadNetwork.step under SpecNet.
MaxNetSteps == 2
\* Longest bid list under SpecSelect.
MaxBids == 3
\* Messages received by one communicator under SpecMailbox.
MaxMsgs == 3
\* Drains of one msg_box under SpecMailbox.
MaxDrains == 2
MaxReturnSteps == 11

\* --------------------------------------------------------------- constants
WAITING_TIME == 3
max_speed == 60
None == -1

\* road_states of SpaceRoadNetwork.step, in tenths: 0.0, 0.5, 1.0.
road_states == <<0, 5, 10>>

VARIABLES
  \* --- the simulation (PlanetDelivery and its agents)
  steps,              \* model.schedule.steps
  stepped,            \* agents already activated in the current schedule.step()
  raised,             \* "" or the exception that ended the run
  items,              \* model.items: sequence of Item records
  computed_items_nb,  \* model.computed_items_nb
  uuid_clock,         \* number of item uids drawn so far (uuid.uuid1)
  ship,               \* ship number -> the fields of the Ship
  planet,             \* planet number -> the fields of the PlanetManager
  inflight,           \* agent -> messages sent to it and not yet drained by its step
  carry_log,          \* history: ship number -> its last award (see Award)
  \* --- the road network (SpaceRoadNetwork)
  initial_graph,      \* environment.initial_graph
  current_graph,      \* environment.current_graph
  speed_modificator,  \* environment.speed_modificator: directed pair -> tenths
  net_pc,             \* position in SpaceRoadNetwork.__init__ / number of steps run
  net_pairs,          \* pairs (i, j) of the double loop still to draw
  net_turns,          \* history: turns of the while loop of line 422 run so far
  road_issue,         \* edges whose draw p was below PROBA_ISSUE_ROAD in the last step
  issue_count,        \* number of such draws so far
  \* --- winner selection
  bids,               \* self.proposals[waiting_item]: proposals in arrival order
  best_rank,          \* bestRank computed for it (None before)
  answers,            \* the accept_proposal and reject_proposal sent for it
  \* --- mailbox
  mutex,              \* communicator.mutex: "" or the holder
  recv_pc,            \* position of RecvBehav.run
  recv_msg,           \* msg of RecvBehav.run
  drain_pc,           \* position of the drain in step
  messages,           \* the local list messages of step
  box,                \* communicator.msg_box of the one agent
  arrived,            \* number of messages self.receive() has returned
  drained             \* what the completed drains returned, in order

vars == <<steps, stepped, raised, items, computed_items_nb, uuid_clock, ship, planet,
          inflight, carry_log, initial_graph, current_graph, speed_modificator,
          net_pc, net_pairs, net_turns, road_issue, issue_count, bids, best_rank, answers,
          mutex, recv_pc, recv_msg,
          drain_pc, messages, box, arrived, drained>>

simVars == <<steps, stepped, raised, items, computed_items_nb, uuid_clock, ship, planet,
             inflight, carry_log>>
netVars == <<initial_graph, current_graph, speed_modificator, net_pc, net_pairs,
             net_turns, road_issue, issue_count>>
selVars == <<bids, best_rank, answers>>
boxVars == <<mutex, recv_pc, recv_msg, drain_pc, messages, box, arrived, drained>>

\* ----------------------------------------------------------------- graphs
\* A networkx Graph: nodes in insertion order, and the edge data dict of each
\* edge, keyed by the pair <<u, v>> with u < v.
EmptyGraph == [nodes |-> <<>>, edges |-> <<>>]

Min(a, b) == IF a <= b THEN a ELSE b
Max(a, b) == IF a >= b THEN a ELSE b
Key(u, v) == <<Min(u, v), Max(u, v)>>
Range(f) == {f[i] : i \in DOMAIN f}

HasEdge(G, u, v) == Key(u, v) \in DOMAIN G.edges

add_node(G, n) ==
  IF n \in Range(G.nodes) THEN G ELSE [G EXCEPT !.nodes = Append(@, n)]

\* Graph.add_edge(u, v, distance=d): adds the missing end points, u first.
add_edge(G, u, v, d) ==
  LET G2 == add_node(add_node(G, u), v)
  IN [G2 EXCEPT !.edges = [k \in DOMAIN @ \cup {Key(u, v)} |->
                             IF k = Key(u, v) THEN [distance |-> d] ELSE @[k]]]

Neighbours(G, u) == {v \in Range(G.nodes) : v # u /\ HasEdge(G, u, v)}

\* The nodes reachable from the nodes of S.
RECURSIVE Reach(_, _)
Reach(G, S) ==
  LET T == S \cup UNION {Neighbours(G, u) : u \in S}
  IN IF T = S THEN S ELSE Reach(G, T)

\* list(nx.connected_components(G)): the components in the order in which the
\* iteration over the nodes meets them.
RECURSIVE ComponentsFrom(_, _, _)
ComponentsFrom(G, i, seen) ==
  IF i > Len(G.nodes) THEN <<>>
  ELSE IF G.nodes[i] \in seen THEN ComponentsFrom(G, i + 1, seen)
  ELSE LET c == Reach(G, {G.nodes[i]})
       IN <<c>> \o ComponentsFrom(G, i + 1, seen \cup c)

connected_components(G) == ComponentsFrom(G, 1, {})

\* The simple paths of G from the end of path to target, as node sequences.
RECURSIVE PathsFrom(_, _, _)
PathsFrom(G, path, target) ==
  LET last == path[Len(path)]
  IN IF last = target THEN {path}
     ELSE UNION {PathsFrom(G, Append(path, v), target) :
                 v \in Neighbours(G, last) \ Range(path)}

RECURSIVE PathLength(_, _)
PathLength(G, path) ==
  IF Len(path) < 2 THEN 0
  ELSE G.edges[Key(path[1], path[2])].distance + PathLength(G, Tail(path))

\* A path of greatest total distance in the place of one of least.
dijkstra_path_longest(G, source, target) ==
  IF source \notin Range(G.nodes) \/ target \notin Range(G.nodes) THEN <<>>
  ELSE LET ps == PathsFrom(G, <<source>>, target)
       IN IF ps = {} THEN <<>>
          ELSE CHOOSE p \in ps : \A q \in ps : PathLength(G, p) >= PathLength(G, q)

\* nx.dijkstra_path(G, source, target, 'distance'): a path of least total
\* distance; <<>> stands for the exception networkx raises when there is none.
dijkstra_path(G, source, target) ==
  IF source \notin Range(G.nodes) \/ target \notin Range(G.nodes) THEN <<>>
  ELSE LET ps == PathsFrom(G, <<source>>, target)
       IN IF ps = {} THEN <<>>
          ELSE CHOOSE p \in ps : \A q \in ps : PathLength(G, p) <= PathLength(G, q)

\* The distance between two planets (norm of the difference of their
\* coordinates): consecutive planets are 90 and 30 apart in turn, all other
\* pairs 100.
PlanetDistance(u, v) ==
  IF u = v THEN 0
  ELSE IF Max(u, v) - Min(u, v) = 1 THEN (IF Min(u, v) % 2 = 0 THEN 90 ELSE 30)
  ELSE 100

\* ----------------------------------------------------------------- agents
Planets == DOMAIN planet
Ships == DOMAIN ship

\* The agents of the schedule, which are also the addresses of the messages.
Env == <<"environment", 0>>
ShipAgent(s) == <<"ship", s>>
PlanetAgent(p) == <<"planet", p>>
Agents == {Env} \cup {ShipAgent(s) : s \in Ships} \cup {PlanetAgent(p) : p \in Planets}
Communicators == Agents \ {Env}

\* The coordinates (x, y) of planet p, and of a point off units from planet a
\* on the way to planet b.
At(p) == [a |-> p, b |-> p, off |-> 0]
OnRoad(a, b, off) == [a |-> a, b |-> b, off |-> off]

\* ------------------------------------------------------------------ items
\* The values random.random() gives an item's a, b, c (in tenths), and a
\* ship's preference_a, preference_b, preference_c: the first ship bids 5
\* for every item, each other ship less, as much or more.
ItemAttributes == {<<5, 5, 5>>}
ShipPreferences(s) == IF s = 0 THEN {<<1, 0, 0>>} ELSE {<<0, 0, 0>>, <<0, 1, 0>>, <<1, 0, 1>>}

\* Item(x, y, a, b, c, uid).  A falsy a, b, c or uid is drawn afresh by the
\* constructor; the values above are all truthy.
Item(x, a, b, c, uid) == [x |-> x, a |-> a, b |-> b, c |-> c, uid |-> uid]
NoItem == Item(At(None), None, None, None, None)

\* Item.from_json(json.loads(json.dumps(item.__dict__))): a new object with
\* the fields of the serialised one.
from_json(j) == Item(j.x, j.a, j.b, j.c, j.uid)

Uids(its) == {its[i].uid : i \in DOMAIN its}

\* list.remove(item): the list without the first element equal to item
\* (Item.__eq__ compares the uids).
RECURSIVE remove(_, _)
remove(its, it) ==
  IF its = <<>> THEN <<>>
  ELSE IF its[1].uid = it.uid THEN Tail(its)
  ELSE <<its[1]>> \o remove(Tail(its), it)

\* --------------------------------------------------------------- messages
Message(to, sender, performative, item, dest, utility, turn) ==
  [to |-> to, sender |-> sender, performative |-> performative, item |-> item,
   dest |-> dest, utility |-> utility, turn |-> turn]

\* CommunicatingAgent.send for each message of out in turn: the message is on
\* its way to the communicator of its addressee.
RECURSIVE SendAll(_, _)
SendAll(fl, out) ==
  IF out = <<>> THEN fl
  ELSE SendAll([fl EXCEPT ![out[1].to] = Append(@, out[1])], Tail(out))

\* ------------------------------------------------------------------ ships
NewShip(start, pref) ==
  [x |-> At(start), preference |-> pref, max_speed |-> max_speed,
   destination |-> None, potential_destination |-> None, waypoint |-> None,
   previous_point |-> start, item |-> NoItem, waiting_for_proposal |-> FALSE]

\* Ship.utility
utility(sh, it) ==
  it.a * sh.preference[1] + it.b * sh.preference[2] + it.c * sh.preference[3]

\* Mutant of move_to: the step is not cut to the rest of the way.
move_to_unclamped(x, from, dest, speed, G) ==
  LET done == IF x = At(from) THEN 0 ELSE x.off
  IN IF done + speed = G.edges[Key(from, dest)].distance THEN At(dest)
     ELSE IF done + speed = 0 THEN At(from)
     ELSE OnRoad(from, dest, done + speed)

\* Ship.move_to(dest, speed) of a ship on the road from planet from to planet
\* dest: the shorter of a step of length speed and the rest of the way.  The
\* ship is never at dest already (the norm of the rest would be 0).
move_to(x, from, dest, speed, G) ==
  LET done == IF x = At(from) THEN 0 ELSE x.off
      rest == G.edges[Key(from, dest)].distance - done
      movement == Min(speed, rest)
  IN IF done + movement = G.edges[Key(from, dest)].distance THEN At(dest)
     ELSE IF done + movement = 0 THEN At(from)
     ELSE OnRoad(from, dest, done + movement)

\* The speed with the modifier of the road left out.
Speed_full(sh, mod, from, to) == sh.max_speed

\* The effective speed on the road (from, to): max_speed times the modifier.
Speed(sh, mod, from, to) == (sh.max_speed * mod[<<from, to>>]) \div 10

\* Ship.step, lines 185-205: route, move, mirror the position on the item,
\* deliver on arrival.  w is [ship, items, computed_items_nb, raised]; a
\* statement that raises leaves what the statements before it did.
ShipRoute(w, G) ==
  IF w.ship.waypoint = None /\ w.ship.destination # None
  THEN LET path == dijkstra_path(G, w.ship.previous_point, w.ship.destination)
       IN IF Len(path) < 2 THEN [w EXCEPT !.raised = "IndexError"]
          ELSE [w EXCEPT !.ship.waypoint = path[2]]
  ELSE w

\* Mutant of ShipDeliver: the delivery is not counted.
ShipDeliver_uncounted(w) ==
  LET sh == [w.ship EXCEPT !.waypoint = None, !.destination = None]
  IN IF sh.item.uid \notin Uids(w.items)
     THEN [w EXCEPT !.ship = sh, !.raised = "ValueError"]
     ELSE [w EXCEPT !.ship = [sh EXCEPT !.item = NoItem],
                    !.items = remove(w.items, sh.item)]

ShipDeliver(w) ==
  LET sh == [w.ship EXCEPT !.waypoint = None, !.destination = None]
  IN IF sh.item.uid \notin Uids(w.items)
     THEN [w EXCEPT !.ship = sh, !.raised = "ValueError"]
     ELSE [w EXCEPT !.ship = [sh EXCEPT !.item = NoItem],
                    !.items = remove(w.items, sh.item),
                    !.computed_items_nb = @ + 1]

\* The arrival with the test waypoint == destination left out.
ShipArrive_any(w, G) ==
  ShipDeliver([w EXCEPT !.ship = [w.ship EXCEPT !.previous_point = w.ship.waypoint]])

ShipArrive(w, G) ==
  LET sh == [w.ship EXCEPT !.previous_point = w.ship.waypoint]
  IN IF sh.waypoint = sh.destination THEN ShipDeliver([w EXCEPT !.ship = sh])
     ELSE LET path == dijkstra_path(G, sh.previous_point, sh.destination)
          IN IF Len(path) < 2 THEN [w EXCEPT !.ship = sh, !.raised = "IndexError"]
             ELSE [w EXCEPT !.ship = [sh EXCEPT !.waypoint = path[2]]]

ShipAdvance(w, G, mod) ==
  IF w.ship.waypoint = None THEN w
  ELSE LET sh == w.ship
           nx == move_to(sh.x, sh.previous_point, sh.waypoint,
                         Speed(sh, mod, sh.previous_point, sh.waypoint), G)
       IN IF sh.item.uid = None
          THEN [w EXCEPT !.ship.x = nx, !.raised = "AttributeError"]
          ELSE LET w2 == [w EXCEPT !.ship.x = nx, !.ship.item.x = nx]
               IN IF nx = At(sh.waypoint) THEN ShipArrive(w2, G) ELSE w2

ShipMovement(w, G, mod) ==
  LET w1 == ShipRoute(w, G)
  IN IF w1.raised # "" THEN w1 ELSE ShipAdvance(w1, G, mod)

\* The answer to a call that takes the planet of the call as destination at
\* once, before any accept_proposal.
ShipPropose_heading(s, sh, m, turn) ==
  [ship |-> [sh EXCEPT !.potential_destination = m.dest, !.destination = m.dest,
                       !.waiting_for_proposal = TRUE],
   out |-> <<Message(m.sender, ShipAgent(s), "proposal", from_json(m.item), m.dest,
                     utility(sh, from_json(m.item)), turn)>>]

\* Ship.step, lines 215-228: the answer to a call for proposal.  The planet
\* whose coordinates the message carries becomes the potential destination.
ShipPropose(s, sh, m, turn) ==
  LET proposedItem == from_json(m.item)
  IN [ship |-> [sh EXCEPT !.potential_destination = m.dest,
                          !.waiting_for_proposal = TRUE],
      out |-> <<Message(m.sender, ShipAgent(s), "proposal", proposedItem, m.dest,
                        utility(sh, proposedItem), turn)>>]

\* The reject_proposal branch with line 233 left out.
ShipRejected_kept(sh) == [sh EXCEPT !.waiting_for_proposal = FALSE]

\* Ship.step, lines 231-233.
ShipRejected(sh) ==
  [sh EXCEPT !.waiting_for_proposal = FALSE, !.potential_destination = None]

\* The accept_proposal branch with line 239 left out.
ShipAccepted_waiting(sh, m) ==
  [sh EXCEPT !.item = from_json(m.item), !.destination = sh.potential_destination,
             !.potential_destination = None]

\* Ship.step, lines 236-240.
ShipAccepted(sh, m) ==
  [sh EXCEPT !.item = from_json(m.item), !.destination = sh.potential_destination,
             !.potential_destination = None, !.waiting_for_proposal = FALSE]

\* The tests with the one on waiting_for_proposal left out of the first.
ShipHandle_eager(s, sh, m, turn) ==
  LET r1 == IF sh.item.uid = None /\ m.performative = "call_for_proposal"
            THEN ShipPropose(s, sh, m, turn)
            ELSE [ship |-> sh, out |-> <<>>]
      s2 == IF r1.ship.item.uid = None /\ m.performative = "reject_proposal"
               /\ r1.ship.waiting_for_proposal = TRUE
            THEN ShipRejected(r1.ship)
            ELSE r1.ship
      s3 == IF s2.item.uid = None /\ m.performative = "accept_proposal"
               /\ s2.waiting_for_proposal = TRUE
            THEN ShipAccepted(s2, m)
            ELSE s2
  IN [ship |-> s3, out |-> r1.out]

\* Ship.step, lines 213-240: the three tests on one message, in turn.
ShipHandle(s, sh, m, turn) ==
  LET r1 == IF sh.item.uid = None /\ m.performative = "call_for_proposal"
               /\ sh.waiting_for_proposal = FALSE
            THEN ShipPropose(s, sh, m, turn)
            ELSE [ship |-> sh, out |-> <<>>]
      s2 == IF r1.ship.item.uid = None /\ m.performative = "reject_proposal"
               /\ r1.ship.waiting_for_proposal = TRUE
            THEN ShipRejected(r1.ship)
            ELSE r1.ship
      s3 == IF s2.item.uid = None /\ m.performative = "accept_proposal"
               /\ s2.waiting_for_proposal = TRUE
            THEN ShipAccepted(s2, m)
            ELSE s2
  IN [ship |-> s3, out |-> r1.out]

\* The loop over the drained messages: the ship after it and what it sent.
RECURSIVE ShipMessages(_, _, _, _)
ShipMessages(s, sh, ms, turn) ==
  IF ms = <<>> THEN [ship |-> sh, out |-> <<>>]
  ELSE LET r == ShipHandle(s, sh, ms[1], turn)
           rest == ShipMessages(s, r.ship, Tail(ms), turn)
       IN [ship |-> rest.ship, out |-> r.out \o rest.out]

\* ---------------------------------------------------------------- planets
NewPlanet ==
  [items_to_ship |-> <<>>, waiting_for_proposal |-> <<>>, start_times |-> <<>>,
   proposals |-> <<>>]

\* dict[k] = v
Put(d, k, v) == [j \in DOMAIN d \cup {k} |-> IF j = k THEN v ELSE d[j]]

\* Mutant of Del: the entry stays.
Del_kept(d, k) == d

\* del dict[k]
Del(d, k) == [j \in DOMAIN d \ {k} |-> d[j]]

RECURSIVE Cfps(_, _, _, _, _)
\* Mutant of Cfps: the test of the coordinates is left out.
Cfps_all(p, e, sh, turn, s) ==
  IF s \notin DOMAIN sh THEN <<>>
  ELSE <<Message(ShipAgent(s), PlanetAgent(p), "call_for_proposal", e.item,
                 e.dest, None, turn)>> \o Cfps(p, e, sh, turn, s + 1)

\* PlanetManager.step, lines 281-288: the calls for proposal for one item, one
\* for each ship of self.ships whose coordinates are the planet's.
Cfps(p, e, sh, turn, s) ==
  IF s \notin DOMAIN sh THEN <<>>
  ELSE (IF sh[s].x = At(p)
        THEN <<Message(ShipAgent(s), PlanetAgent(p), "call_for_proposal", e.item,
                       e.dest, None, turn)>>
        ELSE <<>>) \o Cfps(p, e, sh, turn, s + 1)

\* PlanetManager.step, lines 280-293: a round is opened for every item of
\* items_to_ship, in the order of the dict.
RECURSIVE PlanetIssue(_, _, _, _, _)
PlanetIssue(p, pl, todo, sh, turn) ==
  IF todo = <<>> THEN [planet |-> pl, out |-> <<>>]
  ELSE LET e == todo[1]
           pl2 == [pl EXCEPT !.start_times = Put(@, e.item.uid, turn),
                             !.proposals = Put(@, e.item.uid, <<>>),
                             !.waiting_for_proposal = Append(@, e.item)]
           rest == PlanetIssue(p, pl2, Tail(todo), sh, turn)
       IN [planet |-> rest.planet, out |-> Cfps(p, e, sh, turn, 0) \o rest.out]

\* PlanetManager.step, lines 303-304: every drained message is appended to the
\* proposals of its item; the dict lookup raises KeyError for an item with
\* no entry.
RECURSIVE PlanetCollect(_, _)
PlanetCollect(pl, ms) ==
  IF ms = <<>> THEN [planet |-> pl, raised |-> ""]
  ELSE LET k == from_json(ms[1].item).uid
       IN IF k \notin DOMAIN pl.proposals THEN [planet |-> pl, raised |-> "KeyError"]
          ELSE PlanetCollect([pl EXCEPT !.proposals[k] = Append(@, ms[1])], Tail(ms))

\* PlanetManager.step, lines 317-322: the scan for the best utility, over the
\* utilities of the proposals in the order of the list.  Ranks count from 0.
RECURSIVE BestScan(_, _, _, _)
\* Mutant of BestScan: >= for >, the last of the best proposals wins.
BestScan_last(us, i, bestRank, bestUtility) ==
  IF i >= Len(us) THEN bestRank
  ELSE IF us[i + 1] >= bestUtility THEN BestScan(us, i + 1, i, us[i + 1])
  ELSE BestScan(us, i + 1, bestRank, bestUtility)

BestScan(us, i, bestRank, bestUtility) ==
  IF i >= Len(us) THEN bestRank
  ELSE IF us[i + 1] > bestUtility THEN BestScan(us, i + 1, i, us[i + 1])
  ELSE BestScan(us, i + 1, bestRank, bestUtility)

BestRank(us) == BestScan(us, 0, 0, 0)

Utilities(props) == [i \in DOMAIN props |-> props[i].utility]

\* Mutant of Answers: every proposal at or after bestRank is accepted.
Answers_from(p, it, props, bestRank, turn) ==
  [j \in DOMAIN props |->
     Message(props[j].sender, PlanetAgent(p),
             IF j - 1 >= bestRank THEN "accept_proposal" ELSE "reject_proposal",
             it, props[j].dest, None, turn)]

\* The answers with the else branch of lines 330-336 left out: only the
\* accept_proposal is sent.
Answers_winner(p, it, props, bestRank, turn) ==
  [j \in 1 .. 1 |->
     Message(props[bestRank + 1].sender, PlanetAgent(p), "accept_proposal",
             it, props[bestRank + 1].dest, None, turn)]

\* PlanetManager.step, lines 323-337: accept_proposal to the proposal at
\* bestRank, reject_proposal to each other one, in the order of the list.
Answers(p, it, props, bestRank, turn) ==
  [j \in DOMAIN props |->
     Message(props[j].sender, PlanetAgent(p),
             IF j - 1 = bestRank THEN "accept_proposal" ELSE "reject_proposal",
             it, props[j].dest, None, turn)]

\* Mutant of Expired: >= for >.
Expired_early(pl, it, turn) == turn - pl.start_times[it.uid] >= WAITING_TIME

\* PlanetManager.step, line 311 and 315: the round of a waiting item is over.
Expired(pl, it, turn) == turn - pl.start_times[it.uid] > WAITING_TIME

\* PlanetManager.step, lines 309-345, from index l of waiting_for_proposal
\* (counted from 1 here): the planet, the messages sent, the indexes to delete.
\* rd gives random.choice(self.planets) for each item that is queued again.
RECURSIVE PlanetResolve(_, _, _, _, _)
PlanetResolve(p, pl, l, turn, rd) ==
  IF l > Len(pl.waiting_for_proposal)
  THEN [planet |-> pl, out |-> <<>>, del |-> {}, raised |-> ""]
  ELSE LET it == pl.waiting_for_proposal[l]
       IN IF it.uid \notin DOMAIN pl.start_times
          THEN [planet |-> pl, out |-> <<>>, del |-> {}, raised |-> "KeyError"]
          ELSE IF ~Expired(pl, it, turn) THEN PlanetResolve(p, pl, l + 1, turn, rd)
          ELSE LET props == pl.proposals[it.uid]
                   out == IF Len(props) > 0
                          THEN Answers(p, it, props, BestRank(Utilities(props)), turn)
                          ELSE <<>>
                   pl2 == IF Len(props) > 0 THEN pl
                          ELSE [pl EXCEPT !.items_to_ship =
                                  Append(@, [item |-> it, dest |-> rd[it.uid]])]
                   pl3 == [pl2 EXCEPT !.proposals = Del(@, it.uid),
                                      !.start_times = Del(@, it.uid)]
                   rest == PlanetResolve(p, pl3, l + 1, turn, rd)
               IN [planet |-> rest.planet, out |-> out \o rest.out,
                   del |-> {l} \cup rest.del, raised |-> rest.raised]

\* PlanetManager.step, lines 347-349: the list without the deleted indexes.
RECURSIVE PopAll(_, _, _)
PopAll(w, del, l) ==
  IF l > Len(w) THEN <<>>
  ELSE (IF l \in del THEN <<>> ELSE <<w[l]>>) \o PopAll(w, del, l + 1)

\* PlanetManager.step after the draw of line 276: pl holds the new item, if
\* any, in items_to_ship; box is the drained msg_box.
PlanetRun(p, pl, sh, box0, turn, rd) ==
  LET i == PlanetIssue(p, pl, pl.items_to_ship, sh, turn)
      pl1 == [i.planet EXCEPT !.items_to_ship = <<>>]
      c == PlanetCollect(pl1, box0)
  IN IF c.raised # "" THEN [planet |-> c.planet, out |-> i.out, raised |-> c.raised]
     ELSE LET r == PlanetResolve(p, c.planet, 1, turn, rd)
          IN [planet |-> [r.planet EXCEPT !.waiting_for_proposal =
                            IF r.raised # "" THEN @ ELSE PopAll(@, r.del, 1)],
              out |-> i.out \o r.out, raised |-> r.raised]

\* The items that PlanetManager.step queues again: their round is over and
\* no proposal came, those in box0 included.
Requeued(p, pl, sh, box0, turn) ==
  LET i == PlanetIssue(p, pl, pl.items_to_ship, sh, turn)
      c == PlanetCollect(i.planet, box0)
  IN IF c.raised # "" THEN {}
     ELSE {it.uid : it \in {x \in Range(c.planet.waiting_for_proposal) :
                               /\ x.uid \in DOMAIN c.planet.start_times
                               /\ Expired(c.planet, x, turn)
                               /\ c.planet.proposals[x.uid] = <<>>}}

\* ----------------------------------------------------------- road network
\* SpaceRoadNetwork.__init__, lines 414-420, when the draws below
\* road_branching_factor are those of the pairs of chosen: nodes 0 .. n-1 in
\* order, an edge for each chosen pair.
RECURSIVE AddEdges(_, _)
AddEdges(G, todo) ==
  IF todo = {} THEN G
  ELSE LET e == CHOOSE k \in todo : \A o \in todo : k[1] < o[1] \/ (k[1] = o[1] /\ k[2] <= o[2])
       IN AddEdges(add_edge(G, e[1], e[2], PlanetDistance(e[1], e[2])), todo \ {e})

RECURSIVE AddNodes(_, _, _)
AddNodes(G, i, n) == IF i >= n THEN G ELSE AddNodes(add_node(G, i), i + 1, n)

\* SpaceRoadNetwork.__init__, lines 427-429: current_graph gets the edges of
\* initial_graph (and with them their end points, nothing else).
CopyEdges(G) == AddEdges(EmptyGraph, DOMAIN G.edges)

\* SpaceRoadNetwork.__init__, lines 430-431: 1.0 in both directions.
InitialSpeeds(G) ==
  [d \in {<<u, v>> \in Range(G.nodes) \X Range(G.nodes) : u # v /\ HasEdge(G, u, v)} |-> 10]

\* SpaceRoadNetwork.step, line 440: the values n of road_states with
\* n != state, where state is what edges.items() pairs with the road: the
\* data dict of the edge.  A float never equals a dict.
PyFloat(n) == [float |-> n]
NewStates(state) == {road_states[i] : i \in {j \in DOMAIN road_states : PyFloat(road_states[j]) # state}}

\* The step with line 443 left out: only the direction of the edge tuple.
NetworkStep_oneway(issue, new_state) ==
  /\ \A road \in issue : new_state[road] \in NewStates(current_graph.edges[road])
  /\ speed_modificator' =
       [d \in DOMAIN speed_modificator |->
          IF d \in issue THEN new_state[d] ELSE speed_modificator[d]]

\* SpaceRoadNetwork.step: issue holds the roads whose p is below
\* PROBA_ISSUE_ROAD, new_state the value chosen for each of them.
NetworkStep(issue, new_state) ==
  /\ \A road \in issue : new_state[road] \in NewStates(current_graph.edges[road])
  /\ speed_modificator' =
       [d \in DOMAIN speed_modificator |->
          IF Key(d[1], d[2]) \in issue THEN new_state[Key(d[1], d[2])]
          ELSE speed_modificator[d]]

\* ------------------------------------------------------------- simulation
\* The road graph of the simulation: the planets in a row, each joined to
\* the next (the draws of SpaceRoadNetwork.__init__ that give a connected
\* graph with routes of several hops).
RowGraph(n) == AddEdges(AddNodes(EmptyGraph, 0, n), {<<i, i + 1>> : i \in 0 .. n - 2})

\* PlanetDelivery.__init__(n_planets, n_ships, ...): pf gives the preferences
\* drawn for each ship, st the planet random.choice gives it to start from.
NewModel(n_planets, n_ships, st, pf) ==
  /\ ship = [s \in 0 .. n_ships - 1 |-> NewShip(st[s], pf[s])]
  /\ planet = [p \in 0 .. n_planets - 1 |-> NewPlanet]
  /\ initial_graph = RowGraph(n_planets)
  /\ current_graph = CopyEdges(RowGraph(n_planets))
  /\ speed_modificator = InitialSpeeds(RowGraph(n_planets))

\* History of the awards, kept for the statements about delivery times: the
\* item a ship was last awarded, the tick of the accept_proposal (award), the
\* tick of the step in which the ship took it (since), the lengths of the
\* hops of its route then, and whether a speed modifier has been other than
\* 1.0 at any time since.
NoAward == [uid |-> None, award |-> None, since |-> None, hops |-> <<>>, slowed |-> FALSE]

HopLengths(G, path) ==
  [i \in 1 .. Len(path) - 1 |-> G.edges[Key(path[i], path[i + 1])].distance]

Slow(mod) == \E d \in DOMAIN mod : mod[d] # 10

Award(sh, box0, turn) ==
  LET m == CHOOSE m \in Range(box0) :
             m.performative = "accept_proposal" /\ m.item.uid = sh.item.uid
  IN [uid |-> sh.item.uid, award |-> m.turn, since |-> turn,
      hops |-> HopLengths(current_graph,
                          dijkstra_path(current_graph, sh.previous_point, sh.destination)),
      slowed |-> Slow(speed_modificator)]

SimInit ==
  /\ steps = 0
  /\ stepped = {}
  /\ raised = ""
  /\ items = <<>>
  /\ computed_items_nb = 0
  /\ uuid_clock = 0
  /\ \E n_planets \in 2 .. MaxSize - 2 :
       \E n_ships \in 1 .. MaxSize - 1 - n_planets :
         \E st \in [0 .. n_ships - 1 -> 0 .. n_planets - 1] :
           \E pf \in [0 .. n_ships - 1 -> UNION {ShipPreferences(s) : s \in 0 .. n_ships - 1}] :
             /\ \A s \in 0 .. n_ships - 1 : pf[s] \in ShipPreferences(s)
             /\ NewModel(n_planets, n_ships, st, pf)
  /\ inflight = [a \in Communicators |-> <<>>]
  /\ carry_log = [s \in Ships |-> NoAward]

Running(a) == raised = "" /\ steps < MaxSteps /\ a \notin stepped

\* SpaceRoadNetwork.step as an agent of the schedule: what the step does,
\* and the step in a run of MaxSteps ticks.
EnvRun ==
  /\ \E issue \in SUBSET DOMAIN current_graph.edges :
       /\ issue_count + Cardinality(issue) <= MaxIssues
       /\ issue_count' = issue_count + Cardinality(issue)
       /\ \E new_state \in [issue -> Range(road_states)] : NetworkStep(issue, new_state)
  /\ carry_log' = [s \in Ships |->
                     IF ship[s].item.uid # None /\ Slow(speed_modificator')
                     THEN [carry_log[s] EXCEPT !.slowed = TRUE] ELSE carry_log[s]]
  /\ stepped' = stepped \cup {Env}
  /\ UNCHANGED <<steps, raised, items, computed_items_nb, uuid_clock, ship, planet,
                 inflight, initial_graph, current_graph, net_pc, net_pairs, net_turns,
                 road_issue>>
  /\ UNCHANGED <<selVars, boxVars>>

EnvStep ==
  /\ Running(Env)
  /\ EnvRun

\* communicator.msg_box of agent a at its drain when RecvBehav.run has
\* appended the first k of the messages sent to it since its last drain
\* (RecvBehav runs in the communicator's thread, every 0.01 s), and what is
\* still on its way then.
MsgBox(a, k) == SubSeq(inflight[a], 1, k)
OnTheWay(a, k) == SubSeq(inflight[a], k + 1, Len(inflight[a]))
Drains(a) == {k \in 0 .. Len(inflight[a]) :
                \A i \in k + 1 .. Len(inflight[a]) : steps - inflight[a][i].turn < MaxDelay}

\* Ship.step, with k messages in msg_box at the drain of lines 206-211.
ShipRun(s) ==
  /\ \E k \in Drains(ShipAgent(s)) :
       LET w == ShipMovement([ship |-> ship[s], items |-> items,
                              computed_items_nb |-> computed_items_nb, raised |-> ""],
                             current_graph, speed_modificator)
           r == IF w.raised # "" THEN [ship |-> w.ship, out |-> <<>>]
                ELSE ShipMessages(s, w.ship, MsgBox(ShipAgent(s), k), steps)
       IN /\ ship' = [ship EXCEPT ![s] = r.ship]
          /\ items' = w.items
          /\ computed_items_nb' = w.computed_items_nb
          /\ raised' = w.raised
          /\ inflight' = IF w.raised # "" THEN inflight
                         ELSE SendAll([inflight EXCEPT ![ShipAgent(s)] =
                                         OnTheWay(ShipAgent(s), k)], r.out)
          /\ carry_log' = IF w.ship.item.uid = None /\ r.ship.item.uid # None
                          THEN [carry_log EXCEPT ![s] =
                                  Award(r.ship, MsgBox(ShipAgent(s), k), steps)]
                          ELSE carry_log
  /\ stepped' = stepped \cup {ShipAgent(s)}
  /\ UNCHANGED <<steps, uuid_clock, planet>>
  /\ UNCHANGED <<netVars, selVars, boxVars>>

ShipStep(s) ==
  /\ Running(ShipAgent(s))
  /\ ShipRun(s)

\* PlanetManager.step, given the planet after the draw of line 276 and the
\* items list after it.
PlanetAct(p, pl, its, clock) ==
  /\ \E k \in Drains(PlanetAgent(p)) :
       \E rd \in [Requeued(p, pl, ship, MsgBox(PlanetAgent(p), k), steps) -> Planets \ {p}] :
         LET r == PlanetRun(p, pl, ship, MsgBox(PlanetAgent(p), k), steps, rd)
         IN /\ planet' = [planet EXCEPT ![p] = r.planet]
            /\ inflight' = SendAll([inflight EXCEPT ![PlanetAgent(p)] =
                                      OnTheWay(PlanetAgent(p), k)], r.out)
            /\ raised' = r.raised
  /\ items' = its
  /\ uuid_clock' = clock
  /\ stepped' = stepped \cup {PlanetAgent(p)}
  /\ UNCHANGED <<steps, computed_items_nb, ship, carry_log>>
  /\ UNCHANGED <<netVars, selVars, boxVars>>

\* PlanetManager.step when random.random() is not below NEW_ITEM_PROBA.
PlanetStep(p) ==
  /\ Running(PlanetAgent(p))
  /\ PlanetAct(p, planet[p], items, uuid_clock)

\* PlanetManager.step when it is: lines 277-279 first.
PlanetSpawnStep(p) ==
  /\ Running(PlanetAgent(p))
  /\ Cardinality(Planets) + Cardinality(Ships) + uuid_clock < MaxSize
  /\ \E abc \in ItemAttributes, dest \in Planets \ {p} :
       LET item == Item(At(p), abc[1], abc[2], abc[3], uuid_clock + 1)
       IN PlanetAct(p, [planet[p] EXCEPT !.items_to_ship =
                          Append(@, [item |-> item, dest |-> dest])],
                    Append(items, item), uuid_clock + 1)

\* PlanetDelivery.step after schedule.step() has activated every agent:
\* the schedule counts the step.
EndTick ==
  /\ raised = ""
  /\ steps < MaxSteps
  /\ stepped = Agents
  /\ steps' = steps + 1
  /\ stepped' = {}
  /\ UNCHANGED <<raised, items, computed_items_nb, uuid_clock, ship, planet, inflight,
                 carry_log>>
  /\ UNCHANGED <<netVars, selVars, boxVars>>

Init ==
  /\ SimInit
  /\ net_pc = "run" /\ net_pairs = <<>> /\ net_turns = 0
  /\ road_issue = {} /\ issue_count = 0
  /\ bids = <<>> /\ best_rank = None /\ answers = <<>>
  /\ mutex = "" /\ recv_pc = "receive" /\ recv_msg = None /\ drain_pc = "acquire"
  /\ messages = <<>> /\ box = <<>> /\ arrived = 0 /\ drained = <<>>

Next ==
  \/ EnvStep
  \/ \E s \in Ships : ShipStep(s)
  \/ \E p \in Planets : PlanetStep(p)
  \/ \E p \in Planets : PlanetSpawnStep(p)
  \/ EndTick

Spec == Init /\ [][Next]_vars

\* ------------------------------------------- statements about the simulation
\* The agents that hold the item uid: the planets with it in items_to_ship or
\* in waiting_for_proposal, the ships with it as self.item.
Holders(uid) ==
  {PlanetAgent(p) : p \in {q \in Planets :
      \/ \E i \in DOMAIN planet[q].items_to_ship : planet[q].items_to_ship[i].item.uid = uid
      \/ uid \in Uids(planet[q].waiting_for_proposal)}}
  \cup {ShipAgent(s) : s \in {t \in Ships : ship[t].item.uid = uid}}

\* C1: in every state, whatever steps and drains came before, each item is
\* held by at most one agent: in the pool of one planet or carried by one
\* ship, never both and never by two of either.
C1_OneHolder == \A uid \in 1 .. uuid_clock : Cardinality(Holders(uid)) <= 1

\* C1 witness: two ships bid for an item; one carries it now while the
\* reject_proposal for it is still on its way to the other.
C1_Carried ==
  \E s \in Ships, t \in Ships :
    /\ s # t
    /\ ship[s].item.uid # None
    /\ Holders(ship[s].item.uid) = {ShipAgent(s)}
    /\ \E i \in DOMAIN inflight[ShipAgent(t)] :
         /\ inflight[ShipAgent(t)][i].performative = "reject_proposal"
         /\ inflight[ShipAgent(t)][i].item.uid = ship[s].item.uid

\* The step of the transition is PlanetManager.step of planet p, run to its end.
StepOf(a) == a \in stepped' /\ a \notin stepped /\ raised' = ""

\* The messages msg_box held at the drain of that step.
Drained(a) == SubSeq(inflight[a], 1, Len(inflight[a]) - Len(inflight'[a]))

\* The proposals for item uid at the resolution of that step.
BidsFor(p, uid) ==
  planet[p].proposals[uid]
    \o SelectSeq(Drained(PlanetAgent(p)), LAMBDA m : m.item.uid = uid)

\* The messages of one performative that agent a sends for item uid in the
\* step of the transition (it steps once in a tick), as places in the
\* sequences of inflight; those of them sent to agent b.
SentFor(a, uid, performative) ==
  {<<b, i>> \in UNION {{<<c, j>> : j \in DOMAIN inflight'[c]} : c \in Communicators} :
     /\ inflight'[b][i].sender = a
     /\ inflight'[b][i].turn = steps
     /\ inflight'[b][i].item.uid = uid
     /\ inflight'[b][i].performative = performative}

SentTo(a, uid, performative, b) == {e \in SentFor(a, uid, performative) : e[1] = b}

\* The round of item uid at planet p is open before the step and closed after.
Closes(p, uid) ==
  uid \in DOMAIN planet[p].start_times /\ uid \notin DOMAIN planet'[p].start_times

Answered(p, uid) ==
  SentFor(PlanetAgent(p), uid, "accept_proposal")
    \cup SentFor(PlanetAgent(p), uid, "reject_proposal")

\* C2: a PlanetManager.step that resolves a round with proposals sends one
\* accept_proposal and a reject_proposal to each other bidder, one answer for
\* each proposal; with no proposal it sends neither and queues the item
\* again; either way the proposals, the start time and the waiting entry of
\* the round are gone after it.  A step sends no answer for an item whose
\* round it does not resolve, so no round is resolved twice.
C2_ResolvedOnce ==
  [][\A p \in Planets : StepOf(PlanetAgent(p)) =>
       \A uid \in 1 .. uuid_clock :
         IF Closes(p, uid)
         THEN /\ uid \notin DOMAIN planet'[p].proposals
              /\ uid \notin Uids(planet'[p].waiting_for_proposal)
              /\ IF BidsFor(p, uid) = <<>>
                 THEN /\ Answered(p, uid) = {}
                      /\ \E i \in DOMAIN planet'[p].items_to_ship :
                           planet'[p].items_to_ship[i].item.uid = uid
                 ELSE /\ Cardinality(SentFor(PlanetAgent(p), uid, "accept_proposal")) = 1
                      /\ Cardinality(Answered(p, uid)) = Len(BidsFor(p, uid))
                      /\ \A s \in Ships :
                           Cardinality({e \in Answered(p, uid) : e[1] = ShipAgent(s)}) =
                             Len(SelectSeq(BidsFor(p, uid),
                                           LAMBDA m : m.sender = ShipAgent(s)))
                      /\ \A i \in DOMAIN planet'[p].items_to_ship :
                           planet'[p].items_to_ship[i].item.uid # uid
         ELSE Answered(p, uid) = {}]_vars

\* C2 witness: a round with the proposals of two ships has been resolved, the
\* accept_proposal is on its way to one and the reject_proposal to the other,
\* and the planet keeps nothing of the round.
C2_TwoAnswers ==
  \E p \in Planets, s \in Ships, t \in Ships :
    /\ s # t
    /\ planet[p].start_times = <<>> /\ planet[p].proposals = <<>>
    /\ planet[p].waiting_for_proposal = <<>>
    /\ \E i \in DOMAIN inflight[ShipAgent(s)], j \in DOMAIN inflight[ShipAgent(t)] :
         /\ inflight[ShipAgent(s)][i].performative = "accept_proposal"
         /\ inflight[ShipAgent(t)][j].performative = "reject_proposal"
         /\ inflight[ShipAgent(s)][i].sender = PlanetAgent(p)
         /\ inflight[ShipAgent(t)][j].sender = PlanetAgent(p)
         /\ inflight[ShipAgent(s)][i].item.uid = inflight[ShipAgent(t)][j].item.uid

\* The age of the open round of item uid at planet p.
Age(p, uid) == steps - planet[p].start_times[uid]

C5_Conservation ==
  /\ [](Len(items) = uuid_clock - computed_items_nb)
  /\ [][computed_items_nb' >= computed_items_nb]_vars

\* C5 witness: a tick has ended with one item delivered and another one
\* still in the world.
C5_Delivered ==
  /\ stepped = {}
  /\ steps >= 1
  /\ computed_items_nb >= 1
  /\ Len(items) >= 1

\* C7 as stated: a ship that sends a proposal in its step is, when it handles
\* the call for proposal (after the move of that step), at the planet that
\* sent the call.
C7_CoLocated ==
  [][\A s \in Ships : StepOf(ShipAgent(s)) =>
       \A p \in Planets : \A uid \in 1 .. uuid_clock :
         SentTo(ShipAgent(s), uid, "proposal", PlanetAgent(p)) # {} =>
           ship'[s].x = At(p)]_vars

\* ceil(d / max_speed)
TicksFor(d) == (d + max_speed - 1) \div max_speed

\* The last award of ship s is a route of two hops on roads at 1.0 since.
TwoHops(s) ==
  carry_log[s].uid # None /\ Len(carry_log[s].hops) = 2 /\ ~carry_log[s].slowed

\* The ship's step of tick t has been run.
StepDone(s, t) == steps > t \/ (steps = t /\ ShipAgent(s) \in stepped)

DeliveredItem(s) ==
  ship[s].item.uid # carry_log[s].uid /\ carry_log[s].uid \notin Uids(items)

PoolOf(pl, uid) == SelectSeq(pl.items_to_ship, LAMBDA e : e.item.uid = uid)

\* C11: the step that ends a round without proposals leaves the item in
\* model.items, carried by no ship, and in items_to_ship of the same planet
\* once, with a destination among the planet's other planets; the planet's
\* next step (the first one that finds the item in items_to_ship) opens a
\* new round for it: start time of that tick, a call for proposal with the
\* new destination to each ship at the planet and to no other, the item in
\* waiting_for_proposal and no longer in items_to_ship, and as proposals only
\* what that step drains for it.
C11_QueuedAgain ==
  [][\A p \in Planets : StepOf(PlanetAgent(p)) =>
       \A uid \in 1 .. uuid_clock :
         /\ (Closes(p, uid) /\ BidsFor(p, uid) = <<>>) =>
              /\ uid \in Uids(items')
              /\ \A s \in Ships : ship'[s].item.uid # uid
              /\ Len(PoolOf(planet'[p], uid)) = 1
              /\ PoolOf(planet'[p], uid)[1].dest \in Planets \ {p}
              /\ \A q \in Planets \ {p} : PoolOf(planet'[q], uid) = <<>>
         /\ (PoolOf(planet[p], uid) # <<>>) =>
              /\ uid \in DOMAIN planet'[p].start_times
              /\ planet'[p].start_times[uid] = steps
              /\ planet'[p].proposals[uid] =
                   SelectSeq(Drained(PlanetAgent(p)), LAMBDA m : m.item.uid = uid)
              /\ uid \in Uids(planet'[p].waiting_for_proposal)
              /\ PoolOf(planet'[p], uid) = <<>>
              /\ \A s \in Ships :
                   LET cfp == SentTo(PlanetAgent(p), uid, "call_for_proposal", ShipAgent(s))
                   IN /\ Cardinality(cfp) = (IF ship[s].x = At(p) THEN 1 ELSE 0)
                      /\ \A e \in cfp :
                           inflight'[e[1]][e[2]].dest = PoolOf(planet[p], uid)[1].dest]_vars

\* C11 witness: a round has ended without proposals (no ship was at the
\* planet); the item is in items_to_ship again, for a planet two roads away,
\* and in model.items, and no ship carries it.
C11_Requeued ==
  \E p \in Planets : \E uid \in 1 .. uuid_clock :
    /\ steps >= WAITING_TIME + 1
    /\ PlanetAgent(p) \in stepped
    /\ Len(PoolOf(planet[p], uid)) = 1
    /\ PoolOf(planet[p], uid)[1].dest \notin {p - 1, p, p + 1}
    /\ uid \notin DOMAIN planet[p].start_times
    /\ uid \in Uids(items)
    /\ \A s \in Ships : ship[s].item.uid # uid

\* The proposals ship s sends in the step of the transition.
Bids(s) == UNION {SentFor(ShipAgent(s), uid, "proposal") : uid \in 1 .. uuid_clock}

\* The number of proposals of ship s with no answer it has taken: on their
\* way to a planet, held in a round, or answered by a message not yet drained.
Unanswered(s) ==
  LET sent == {e \in UNION {{<<p, i>> : i \in DOMAIN inflight[PlanetAgent(p)]} : p \in Planets} :
                 inflight[PlanetAgent(e[1])][e[2]].sender = ShipAgent(s)}
      held == {e \in UNION {UNION {{<<p, uid, i>> : i \in DOMAIN planet[p].proposals[uid]} :
                                     uid \in DOMAIN planet[p].proposals} : p \in Planets} :
                 planet[e[1]].proposals[e[2]][e[3]].sender = ShipAgent(s)}
      back == {i \in DOMAIN inflight[ShipAgent(s)] :
                 inflight[ShipAgent(s)][i].performative
                   \in {"accept_proposal", "reject_proposal"}}
  IN Cardinality(sent) + Cardinality(held) + Cardinality(back)

\* Ship s carries nothing when the message loop of the step begins: it
\* carried nothing before, or the movement of the step delivered its item.
Free(s) == ship[s].item.uid = None \/ ship[s].item.uid \notin Uids(items')

\* C13: a Ship.step sends at most one proposal, and sends one only for a
\* call_for_proposal it handles while it carries nothing and waits for no
\* answer (it waited for none before, or a reject_proposal came earlier in
\* the same msg_box); a ship that carries an item or waits for an answer
\* sends nothing for the calls it drains and keeps its tentative
\* destination.  At every moment a ship has one unanswered proposal when
\* waiting_for_proposal is set and none otherwise, and it carries nothing
\* while it waits.
C13_OneBid ==
  /\ [](\A s \in Ships :
          /\ Unanswered(s) = (IF ship[s].waiting_for_proposal THEN 1 ELSE 0)
          /\ ship[s].waiting_for_proposal => (ship[s].item.uid = None))
  /\ [][\A s \in Ships : StepOf(ShipAgent(s)) =>
          LET msgs == Drained(ShipAgent(s))
          IN /\ Cardinality(Bids(s)) <= 1
             /\ \A e \in Bids(s) :
                  \E i \in DOMAIN msgs :
                    /\ msgs[i].performative = "call_for_proposal"
                    /\ msgs[i].item.uid = inflight'[e[1]][e[2]].item.uid
                    /\ msgs[i].sender = e[1]
                    /\ Free(s)
                    /\ \A j \in 1 .. i - 1 : msgs[j].performative # "accept_proposal"
                    /\ (ship[s].waiting_for_proposal =>
                          \E j \in 1 .. i - 1 : msgs[j].performative = "reject_proposal")
                    /\ ship'[s].waiting_for_proposal
                    /\ ship'[s].item.uid = None
             /\ ((~Free(s) \/ ship[s].waiting_for_proposal)
                   /\ \A i \in DOMAIN msgs : msgs[i].performative = "call_for_proposal") =>
                  /\ Bids(s) = {}
                  /\ ship'[s].waiting_for_proposal = ship[s].waiting_for_proposal
                  /\ ship'[s].potential_destination = ship[s].potential_destination
                  /\ ship'[s].destination = ship[s].destination
                  /\ ship'[s].item.uid = ship[s].item.uid]_vars

\* C13 witness: a ship that never carried an item waits for an answer at its
\* planet, has stepped in this tick and emptied msg_box, and the planet has a
\* round, opened in an earlier tick, for another item than the one the ship
\* bid on, with no proposal of the ship: the ship drained that call and
\* ignored it.
C13_IgnoredCall ==
  \E s \in Ships : \E p \in Planets : \E uid \in DOMAIN planet[p].start_times :
    /\ ship[s].waiting_for_proposal
    /\ carry_log[s] = NoAward
    /\ ship[s].x = At(p)
    /\ ShipAgent(s) \in stepped
    /\ inflight[ShipAgent(s)] = <<>>
    /\ planet[p].start_times[uid] < steps
    /\ \A i \in DOMAIN planet[p].proposals[uid] :
         planet[p].proposals[uid][i].sender # ShipAgent(s)
    /\ \A i \in DOMAIN inflight[PlanetAgent(p)] :
         inflight[PlanetAgent(p)][i].item.uid # uid
    /\ Unanswered(s) = 1

\* The messages that make up the unanswered proposals of ship s.
Pending(s) ==
  {m \in UNION {Range(inflight[PlanetAgent(p)]) : p \in Planets} : m.sender = ShipAgent(s)}
    \cup {m \in UNION {UNION {Range(planet[p].proposals[uid]) :
                                uid \in DOMAIN planet[p].proposals} : p \in Planets} :
             m.sender = ShipAgent(s)}
    \cup {m \in Range(inflight[ShipAgent(s)]) :
             m.performative \in {"accept_proposal", "reject_proposal"}}

\* C14: a Ship.step that handles an accept_proposal while waiting_for_proposal
\* is set leaves the ship with the item of that message, with the destination
\* the message names, which is the planet of the call it bid on kept in
\* potential_destination, with the flag cleared and no tentative destination,
\* and sends no proposal.  One that handles a reject_proposal leaves it
\* carrying nothing with no destination; the flag and the tentative
\* destination are cleared, unless a call_for_proposal follows in the same
\* msg_box, and then the ship bids on the first such call.  While a ship
\* waits, its proposal and the answer to it name the planet it keeps in
\* potential_destination, which is the one the call named.
C14_Answer ==
  /\ [](\A s \in Ships : ship[s].waiting_for_proposal =>
          /\ ship[s].potential_destination \in Planets
          /\ \A m \in Pending(s) : m.dest = ship[s].potential_destination)
  /\ [][\A s \in Ships : StepOf(ShipAgent(s)) =>
          LET msgs == Drained(ShipAgent(s))
          IN /\ \A e \in Bids(s) :
                  \E i \in DOMAIN msgs :
                    /\ msgs[i].performative = "call_for_proposal"
                    /\ msgs[i].item.uid = inflight'[e[1]][e[2]].item.uid
                    /\ msgs[i].dest = inflight'[e[1]][e[2]].dest
                    /\ msgs[i].dest = ship'[s].potential_destination
             /\ \A i \in DOMAIN msgs :
                  /\ (msgs[i].performative = "accept_proposal"
                        /\ ship[s].waiting_for_proposal) =>
                       /\ ship'[s].item = from_json(msgs[i].item)
                       /\ ship'[s].destination = msgs[i].dest
                       /\ ship'[s].destination = ship[s].potential_destination
                       /\ ship'[s].potential_destination = None
                       /\ ~ship'[s].waiting_for_proposal
                       /\ Bids(s) = {}
                  /\ (msgs[i].performative = "reject_proposal"
                        /\ ship[s].waiting_for_proposal) =>
                       LET calls == {k \in i + 1 .. Len(msgs) :
                                       msgs[k].performative = "call_for_proposal"}
                       IN /\ ship'[s].item.uid = None
                          /\ ship'[s].destination = None
                          /\ (calls = {}) =>
                               /\ ship'[s].potential_destination = None
                               /\ ~ship'[s].waiting_for_proposal
                               /\ Bids(s) = {}
                          /\ (calls # {}) =>
                               /\ ship'[s].waiting_for_proposal
                               /\ \A e \in Bids(s) :
                                    inflight'[e[1]][e[2]].item.uid
                                      = msgs[CHOOSE k \in calls : \A l \in calls : k <= l].item.uid
                               /\ Cardinality(Bids(s)) = 1]_vars

\* C14 witness: two ships at the planet of an item; one has taken the
\* accept_proposal in this tick and has not moved yet, the other, which never
\* carried anything, has handled the reject_proposal: it has stepped with an
\* empty msg_box and is free again.
C14_AcceptedAndRejected ==
  \E s \in Ships, t \in Ships :
    /\ s # t
    /\ ship[s].item.uid # None
    /\ carry_log[s].since = steps
    /\ ShipAgent(s) \in stepped
    /\ ship[s].destination \in Planets
    /\ ship[s].item.x = ship[s].x
    /\ ship[t].x = ship[s].x
    /\ carry_log[t] = NoAward
    /\ ~ship[t].waiting_for_proposal
    /\ ship[t].potential_destination = None
    /\ ShipAgent(t) \in stepped
    /\ inflight[ShipAgent(t)] = <<>>

\* C15 as stated: whenever a ship carries an item (the state after the ship
\* step that took it and after every later one), the entry of model.items
\* with the uid of that item has the position of the ship.
C15_Mirrored ==
  \A s \in Ships : (ship[s].item.uid # None) =>
    \A i \in DOMAIN items :
      (items[i].uid = ship[s].item.uid) => (items[i].x = ship[s].x)

\* The waypoint Ship.step of ship s moves to: the one it had, or the one
\* line 186 sets when it had none.
Heading(s) ==
  IF ship[s].waypoint # None THEN ship[s].waypoint
  ELSE dijkstra_path(current_graph, ship[s].previous_point, ship[s].destination)[2]

\* C16: a Ship.step of a ship with a destination whose road
\* (previous_point, waypoint) has modifier 0 leaves the ship where it was, on
\* the same road to the same waypoint with the same destination and the same
\* item, and delivers nothing: the world keeps its items and the counter its
\* value.  This holds in each step, so for as many ticks as the modifier
\* stays 0.
C16_Stalled ==
  [][\A s \in Ships :
       (/\ StepOf(ShipAgent(s))
        /\ ship[s].destination # None
        /\ speed_modificator[<<ship[s].previous_point, Heading(s)>>] = 0) =>
         /\ ship'[s].x = ship[s].x
         /\ ship'[s].waypoint = Heading(s)
         /\ ship'[s].previous_point = ship[s].previous_point
         /\ ship'[s].destination = ship[s].destination
         /\ ship'[s].item.uid = ship[s].item.uid
         /\ ship'[s].item.x = ship[s].x
         /\ items' = items
         /\ computed_items_nb' = computed_items_nb]_vars

\* C16 witness: a ship took an item two ticks ago or earlier, has stepped in
\* this tick and is still at the planet it started from, heading for a
\* waypoint on a road with modifier 0: its steps since moved it by nothing.
C16_Blocked ==
  \E s \in Ships :
    /\ ship[s].item.uid # None
    /\ ship[s].waypoint # None
    /\ speed_modificator[<<ship[s].previous_point, ship[s].waypoint>>] = 0
    /\ ship[s].x = At(ship[s].previous_point)
    /\ carry_log[s].since <= steps - 2
    /\ ShipAgent(s) \in stepped

\* C18: an item leaves model.items, and computed_items_nb changes, only in a
\* Ship.step of the ship that carries the item which ends with the ship at
\* the planet that was its destination; that step removes that one item,
\* adds one to the counter and leaves the ship with no item, no destination
\* and no waypoint.  The destination is the one of the round: a ship takes
\* it from the accept_proposal with the item, the accept_proposal names the
\* planet the proposal named, and the ship keeps it while it carries the
\* item.  An item that has left the world does not come back, so none is
\* delivered twice.
C18_DeliveredAtDestination ==
  /\ [][(Uids(items) \ Uids(items') # {} \/ computed_items_nb' # computed_items_nb) =>
          \E s \in Ships :
            /\ ShipAgent(s) \in stepped' /\ ShipAgent(s) \notin stepped
            /\ ship[s].item.uid # None
            /\ ship[s].destination # None
            /\ ship'[s].x = At(ship[s].destination)
            /\ Uids(items') = Uids(items) \ {ship[s].item.uid}
            /\ Len(items') = Len(items) - 1
            /\ computed_items_nb' = computed_items_nb + 1
            /\ ship'[s].item.uid = None
            /\ ship'[s].destination = None
            /\ ship'[s].waypoint = None]_vars
  /\ [][\A s \in Ships :
          /\ (ship[s].item.uid # None /\ ship'[s].item.uid = ship[s].item.uid) =>
               (ship'[s].destination = ship[s].destination)
          /\ (ship'[s].item.uid # None /\ ship'[s].item.uid # ship[s].item.uid) =>
               \E m \in Range(Drained(ShipAgent(s))) :
                 /\ m.performative = "accept_proposal"
                 /\ m.item.uid = ship'[s].item.uid
                 /\ m.dest = ship'[s].destination]_vars
  /\ [][\A p \in Planets : StepOf(PlanetAgent(p)) =>
          \A uid \in 1 .. uuid_clock : \A e \in Answered(p, uid) :
            \E m \in Range(BidsFor(p, uid)) :
              m.sender = e[1] /\ m.dest = inflight'[e[1]][e[2]].dest]_vars
  /\ [][\A uid \in 1 .. uuid_clock :
          (uid \notin Uids(items)) => (uid \notin Uids(items'))]_vars

\* C18 witness: a ship has stepped in this tick and stands at a planet two
\* hops from where it took its item, with no item, destination or waypoint;
\* the item it was awarded is no longer in the world and the counter is 1.
C18_JustDelivered ==
  \E s \in Ships :
    /\ ShipAgent(s) \in stepped
    /\ carry_log[s].uid # None
    /\ Len(carry_log[s].hops) = 2
    /\ carry_log[s].uid \notin Uids(items)
    /\ ship[s].item.uid = None
    /\ ship[s].destination = None
    /\ ship[s].waypoint = None
    /\ ship[s].x = At(ship[s].previous_point)
    /\ computed_items_nb = 1

\* C20: with every message drained in the tick it is sent or the next one
\* (MaxDelay = 1), a ship that waits for an answer has exactly one proposal
\* without a taken answer, and that proposal advances to its answer within a
\* fixed number of ticks.  While it is on its way to the planet the round
\* of its item is open there, and the planet drains it in the tick it was
\* sent or the next; while the planet holds it the round is at most
\* WAITING_TIME + 1 ticks old, and the planet step of that tick resolves it;
\* a step that resolves a round sends each bidder exactly one answer; the
\* answer is drained by the ship in the tick it was sent or the next, and
\* the ship then leaves the waiting state (C14).  So a ship that sent its
\* proposal in tick a has taken the one answer by its step of tick
\* a + WAITING_TIME + 1 + MaxDelay, if the run goes on that long.
C20_Answered ==
  /\ [](\A s \in Ships : ship[s].waiting_for_proposal =>
          /\ Unanswered(s) = 1
          /\ \A p \in Planets :
               /\ \A i \in DOMAIN inflight[PlanetAgent(p)] :
                    LET m == inflight[PlanetAgent(p)][i]
                    IN (m.sender = ShipAgent(s)) =>
                         /\ m.item.uid \in DOMAIN planet[p].start_times
                         /\ m.turn - planet[p].start_times[m.item.uid] <= MaxDelay
                         /\ steps - m.turn <= MaxDelay
                         /\ (steps - m.turn = MaxDelay) => (PlanetAgent(p) \notin stepped)
               /\ \A uid \in DOMAIN planet[p].proposals :
                    (\E i \in DOMAIN planet[p].proposals[uid] :
                       planet[p].proposals[uid][i].sender = ShipAgent(s)) =>
                      /\ uid \in DOMAIN planet[p].start_times
                      /\ Age(p, uid) <= WAITING_TIME + 1
                      /\ (Age(p, uid) = WAITING_TIME + 1) => (PlanetAgent(p) \notin stepped)
          /\ \A i \in DOMAIN inflight[ShipAgent(s)] :
               LET m == inflight[ShipAgent(s)][i]
               IN (m.performative \in {"accept_proposal", "reject_proposal"}) =>
                    /\ steps - m.turn <= MaxDelay
                    /\ (steps - m.turn = MaxDelay) => (ShipAgent(s) \notin stepped))
  /\ [][\A p \in Planets : StepOf(PlanetAgent(p)) =>
          \A uid \in 1 .. uuid_clock : Closes(p, uid) =>
            \A s \in Ships :
              Cardinality({e \in Answered(p, uid) : e[1] = ShipAgent(s)})
                = Len(SelectSeq(BidsFor(p, uid), LAMBDA m : m.sender = ShipAgent(s)))]_vars

\* C20 witness: a ship whose call and whose answer were each a tick on their
\* way has taken the accept_proposal in this tick, WAITING_TIME + 1 + MaxDelay
\* ticks after the round began, and waits no longer, while another ship that
\* bid in the same round is free again.
C20_LastAnswer ==
  \E s \in Ships, t \in Ships :
    /\ s # t
    /\ ship[s].item.uid # None
    /\ ~ship[s].waiting_for_proposal
    /\ carry_log[s].since = steps
    /\ carry_log[s].award = steps - MaxDelay
    /\ ship[t].x = ship[s].x
    /\ ship[t].previous_point = ship[s].previous_point
    /\ carry_log[t] = NoAward
    /\ ~ship[t].waiting_for_proposal
    /\ ShipAgent(t) \in stepped
    /\ inflight[ShipAgent(t)] = <<>>
    /\ Len(items) = 1

\* C22: in every state (so at the end of every Ship.step) a ship has a
\* destination exactly when it carries an item, has a waypoint only when it
\* carries an item, and does not wait for an answer while it carries one;
\* self.item.x = self.x at line 191 never finds self.item None.
C22_Consistent ==
  /\ raised # "AttributeError"
  /\ \A s \in Ships :
       /\ (ship[s].destination # None) <=> (ship[s].item.uid # None)
       /\ (ship[s].waypoint # None) => (ship[s].item.uid # None)
       /\ ~(ship[s].item.uid # None /\ ship[s].waiting_for_proposal)

\* C22 witness: a ship is on the road with its item, destination and
\* waypoint and no longer waits, while another one, whose bid for the item was
\* rejected, has none of them.
C22_OnTheRoad ==
  \E s \in Ships, t \in Ships :
    /\ ship[s].item.uid # None
    /\ ship[s].destination # None
    /\ ship[s].waypoint # None
    /\ ship[s].x.off > 0
    /\ ~ship[s].waiting_for_proposal
    /\ carry_log[t] = NoAward
    /\ ship[t].x = At(ship[s].previous_point)
    /\ ship[t].item.uid = None
    /\ ship[t].destination = None
    /\ ship[t].waypoint = None
    /\ ~ship[t].waiting_for_proposal

\* C23: a ship that carries no item is at the planet it visited last, and no
\* step changes the position or previous_point of a ship that carries no
\* item before it; in particular the Ship.step that takes an item leaves the
\* ship where it was, with no waypoint yet.
C23_Stays ==
  /\ [](\A s \in Ships :
          (ship[s].item.uid = None) => (ship[s].x = At(ship[s].previous_point)))
  /\ [][\A s \in Ships : (ship[s].item.uid = None) =>
          /\ ship'[s].x = ship[s].x
          /\ ship'[s].previous_point = ship[s].previous_point
          /\ ship'[s].waypoint = None]_vars

\* C23 witness: the only ship of the run has taken its item in the step of
\* this tick, the tick of the award, and is still at its planet with no
\* waypoint after four ticks of waiting there.
C23_TakenNotMoved ==
  /\ Cardinality(Ships) = 1
  /\ \E s \in Ships :
       /\ ship[s].item.uid # None
       /\ carry_log[s].since = steps
       /\ carry_log[s].award = steps
       /\ steps = WAITING_TIME + 1
       /\ ShipAgent(s) \in stepped
       /\ ship[s].x = At(ship[s].previous_point)
       /\ ship[s].waypoint = None

\* ------------------------------------------ SpecLate: a proposal comes late
\* Two planets, two ships at planet 0.  Planet 0 spawned item 1 for planet 1
\* at tick 0 and called both ships; both sent a proposal, that of ship 0 came
\* in time and that of ship 1 (sent in tick 0 or 1) is still on its way when
\* the round is resolved in tick WAITING_TIME + 1: ship 0 is accepted, ship 1
\* gets no answer.  The state is that of the next tick after the road network
\* and the ships have stepped: ship 0 took the item in the tick of the award
\* and has moved once, or takes it now; planet 0 may have spawned a second
\* item meanwhile, whose calls both ships ignored; the late proposal is in
\* msg_box of planet 0 at its drain.
LateItem(uid, x) == Item(x, 5, 5, 5, uid)

LateShips(moved, pf) ==
  LET x == IF moved THEN OnRoad(0, 1, max_speed) ELSE At(0)
  IN (0 :> [NewShip(0, <<1, 0, 0>>) EXCEPT
              !.x = x, !.item = LateItem(1, x), !.destination = 1,
              !.waypoint = IF moved THEN 1 ELSE None])
     @@ (1 :> [NewShip(0, pf) EXCEPT !.potential_destination = 1,
                                      !.waiting_for_proposal = TRUE])

LatePlanet(second) ==
  IF second = None THEN NewPlanet
  ELSE [NewPlanet EXCEPT !.waiting_for_proposal = <<LateItem(2, At(0))>>,
                         !.start_times = Put(<<>>, 2, second),
                         !.proposals = Put(<<>>, 2, <<>>)]

LateInit ==
  /\ steps = WAITING_TIME + 2
  /\ raised = ""
  /\ computed_items_nb = 0
  /\ initial_graph = RowGraph(2)
  /\ current_graph = CopyEdges(RowGraph(2))
  /\ speed_modificator = InitialSpeeds(RowGraph(2))
  /\ \E moved \in BOOLEAN, pf \in ShipPreferences(1), sent \in {0, 1},
        second \in {None} \cup (1 .. WAITING_TIME + 1),
        done \in SUBSET {PlanetAgent(1)} :
       /\ ship = LateShips(moved, pf)
       /\ planet = (0 :> LatePlanet(second)) @@ (1 :> NewPlanet)
       /\ items = <<LateItem(1, At(0))>>
                    \o (IF second = None THEN <<>> ELSE <<LateItem(2, At(0))>>)
       /\ uuid_clock = IF second = None THEN 1 ELSE 2
       /\ stepped = {Env, ShipAgent(0), ShipAgent(1)} \cup done
       /\ inflight = [a \in Communicators |->
                        IF a = PlanetAgent(0)
                        THEN <<Message(a, ShipAgent(1), "proposal", LateItem(1, At(0)), 1,
                                       utility(ship[1], LateItem(1, At(0))), sent)>>
                        ELSE <<>>]
       /\ carry_log = (0 :> [uid |-> 1, award |-> WAITING_TIME + 1,
                             since |-> IF moved THEN WAITING_TIME + 1 ELSE WAITING_TIME + 2,
                             hops |-> <<PlanetDistance(0, 1)>>, slowed |-> FALSE])
                       @@ (1 :> NoAward)
  /\ net_pc = "run" /\ net_pairs = <<>> /\ net_turns = 0
  /\ road_issue = {} /\ issue_count = 0
  /\ bids = <<>> /\ best_rank = None /\ answers = <<>>
  /\ mutex = "" /\ recv_pc = "receive" /\ recv_msg = None /\ drain_pc = "acquire"
  /\ messages = <<>> /\ box = <<>> /\ arrived = 0 /\ drained = <<>>

LateNext == \E p \in Planets : PlanetStep(p)

SpecLate == LateInit /\ [][LateNext]_vars

\* The messages of box for items that have an entry in proposals once the
\* step of planet record pl has opened the rounds of items_to_ship.
Known(pl, messages0) ==
  SelectSeq(messages0, LAMBDA m :
    m.item.uid \in DOMAIN pl.proposals \cup {e.item.uid : e \in Range(pl.items_to_ship)})

\* C12 as stated: a PlanetManager.step that drains a proposal for an item
\* with no entry in proposals ends without raising and leaves the planet as
\* the same step without that message would.
C12_Dropped ==
  [][\A p \in Planets :
       (/\ PlanetAgent(p) \in stepped' /\ PlanetAgent(p) \notin stepped
        /\ Known(planet[p], Drained(PlanetAgent(p))) # Drained(PlanetAgent(p))) =>
         /\ raised' = ""
         /\ \E rd \in [Requeued(p, planet[p], ship,
                                 Known(planet[p], Drained(PlanetAgent(p))), steps)
                          -> Planets \ {p}] :
              planet'[p] = PlanetRun(p, planet[p], ship,
                                     Known(planet[p], Drained(PlanetAgent(p))),
                                     steps, rd).planet]_vars

\* ---------------------------------- SpecReturn: the run after a first award
\* Two planets and one ship.  The planet of the ship spawned item 1 for the
\* other planet at tick 0, the ship bid, and in tick WAITING_TIME + 1 the
\* planet resolved the round and the ship, stepping after it, took the
\* accept_proposal.  The state is the end of that tick; from it the
\* simulation runs on to tick MaxReturnSteps.
ReturnInit ==
  /\ steps = WAITING_TIME + 1
  /\ raised = ""
  /\ computed_items_nb = 0
  /\ uuid_clock = 1
  /\ planet = [p \in 0 .. 1 |-> NewPlanet]
  /\ initial_graph = RowGraph(2)
  /\ current_graph = CopyEdges(RowGraph(2))
  /\ speed_modificator = InitialSpeeds(RowGraph(2))
  /\ \E start \in 0 .. 1 :
       /\ items = <<LateItem(1, At(start))>>
       /\ ship = (0 :> [NewShip(start, <<1, 0, 0>>) EXCEPT
                          !.item = LateItem(1, At(start)), !.destination = 1 - start])
       /\ carry_log = (0 :> [uid |-> 1, award |-> WAITING_TIME + 1,
                             since |-> WAITING_TIME + 1,
                             hops |-> <<PlanetDistance(0, 1)>>, slowed |-> FALSE])
  /\ stepped = Agents
  /\ inflight = [a \in Communicators |-> <<>>]
  /\ net_pc = "run" /\ net_pairs = <<>> /\ net_turns = 0
  /\ road_issue = {} /\ issue_count = 0
  /\ bids = <<>> /\ best_rank = None /\ answers = <<>>
  /\ mutex = "" /\ recv_pc = "receive" /\ recv_msg = None /\ drain_pc = "acquire"
  /\ messages = <<>> /\ box = <<>> /\ arrived = 0 /\ drained = <<>>

ReturnRunning(a) == raised = "" /\ steps < MaxReturnSteps /\ a \notin stepped

ReturnEnvStep ==
  /\ ReturnRunning(Env)
  /\ EnvRun

ReturnShipStep(s) ==
  /\ ReturnRunning(ShipAgent(s))
  /\ ShipRun(s)

ReturnPlanetStep(p) ==
  /\ ReturnRunning(PlanetAgent(p))
  /\ PlanetAct(p, planet[p], items, uuid_clock)

ReturnSpawnStep(p) ==
  /\ ReturnRunning(PlanetAgent(p))
  /\ Cardinality(Planets) + Cardinality(Ships) + uuid_clock < MaxSize
  /\ \E abc \in ItemAttributes, dest \in Planets \ {p} :
       LET item == Item(At(p), abc[1], abc[2], abc[3], uuid_clock + 1)
       IN PlanetAct(p, [planet[p] EXCEPT !.items_to_ship =
                          Append(@, [item |-> item, dest |-> dest])],
                    Append(items, item), uuid_clock + 1)

ReturnTick ==
  /\ raised = ""
  /\ steps < MaxReturnSteps
  /\ stepped = Agents
  /\ steps' = steps + 1
  /\ stepped' = {}
  /\ UNCHANGED <<raised, items, computed_items_nb, uuid_clock, ship, planet, inflight,
                 carry_log>>
  /\ UNCHANGED <<netVars, selVars, boxVars>>

ReturnNext ==
  \/ ReturnEnvStep
  \/ \E s \in Ships : ReturnShipStep(s)
  \/ \E p \in Planets : ReturnPlanetStep(p)
  \/ \E p \in Planets : ReturnSpawnStep(p)
  \/ ReturnTick

SpecReturn == ReturnInit /\ [][ReturnNext]_vars

\* C21 as stated: a Ship.step that computes a route at line 186 (the ship
\* has a destination and no waypoint) finds previous_point different from
\* the destination, and no Ship.step fails taking element 1 of the path.
C21_RouteExists ==
  [][\A s \in Ships :
       (ShipAgent(s) \in stepped' /\ ShipAgent(s) \notin stepped) =>
         /\ raised' # "IndexError"
         /\ (ship[s].destination # None /\ ship[s].waypoint = None) =>
              (ship[s].previous_point # ship[s].destination)]_vars

\* ------------------------------------------- SpecRoute: routes of a ship
\* One ship that has just taken an item, on every connected road graph over
\* MaxNetPlanets planets that SpaceRoadNetwork.__init__ can build, from every
\* planet to every other.  The road network and the ship step in either
\* order in each tick; the steps of the planets, which touch neither the ship
\* nor the roads when no item is spawned, are left out.
RoutePairs == {<<i, j>> \in (0 .. MaxNetPlanets - 1) \X (0 .. MaxNetPlanets - 1) : i < j}

RouteGraph(roads) == AddEdges(AddNodes(EmptyGraph, 0, MaxNetPlanets), roads)

RouteInit ==
  /\ steps = WAITING_TIME + 1
  /\ stepped = {}
  /\ raised = ""
  /\ computed_items_nb = 0
  /\ uuid_clock = 1
  /\ planet = [p \in 0 .. MaxNetPlanets - 1 |-> NewPlanet]
  /\ \E roads \in SUBSET RoutePairs :
       /\ Len(connected_components(RouteGraph(roads))) = 1
       /\ initial_graph = RouteGraph(roads)
       /\ current_graph = CopyEdges(RouteGraph(roads))
       /\ speed_modificator = InitialSpeeds(RouteGraph(roads))
       /\ \E start \in 0 .. MaxNetPlanets - 1, dest \in 0 .. MaxNetPlanets - 1 :
            /\ start # dest
            /\ items = <<LateItem(1, At(start))>>
            /\ ship = (0 :> [NewShip(start, <<1, 0, 0>>) EXCEPT
                               !.item = LateItem(1, At(start)), !.destination = dest])
            /\ carry_log = (0 :> [uid |-> 1, award |-> WAITING_TIME + 1,
                                  since |-> WAITING_TIME + 1,
                                  hops |-> HopLengths(RouteGraph(roads),
                                             dijkstra_path(RouteGraph(roads), start, dest)),
                                  slowed |-> FALSE])
  /\ inflight = [a \in Communicators |-> <<>>]
  /\ net_pc = "run" /\ net_pairs = <<>> /\ net_turns = 0
  /\ road_issue = {} /\ issue_count = 0
  /\ bids = <<>> /\ best_rank = None /\ answers = <<>>
  /\ mutex = "" /\ recv_pc = "receive" /\ recv_msg = None /\ drain_pc = "acquire"
  /\ messages = <<>> /\ box = <<>> /\ arrived = 0 /\ drained = <<>>

\* PlanetDelivery.step when the road network and the ships have stepped.
RouteTick ==
  /\ raised = ""
  /\ steps < MaxSteps
  /\ stepped = {Env} \cup {ShipAgent(s) : s \in Ships}
  /\ steps' = steps + 1
  /\ stepped' = {}
  /\ UNCHANGED <<raised, items, computed_items_nb, uuid_clock, ship, planet, inflight,
                 carry_log>>
  /\ UNCHANGED <<netVars, selVars, boxVars>>

RouteNext ==
  \/ EnvStep
  \/ \E s \in Ships : ShipStep(s)
  \/ RouteTick

SpecRoute == RouteInit /\ [][RouteNext]_vars

\* The planets that come second on a path of least total distance from
\* planet from to planet to, the distances being those of initial_graph.
SecondNodes(from, to) ==
  LET ps == PathsFrom(initial_graph, <<from>>, to)
  IN {path[2] : path \in {q \in ps : \A r \in ps :
                             PathLength(initial_graph, q) <= PathLength(initial_graph, r)}}

\* C17: whenever a Ship.step sets the waypoint (line 186 or line 203), the
\* waypoint is joined by a road to the planet the ship visited last and comes
\* second on a path of least total distance from that planet to the
\* destination, the distances being those given to the roads in
\* SpaceRoadNetwork.__init__; the same holds of a planet the ship reaches in
\* the step.  speed_modificator has no part in it.
C17_Shortest ==
  [][\A s \in Ships :
       /\ (ship'[s].waypoint # None /\ ship'[s].waypoint # ship[s].waypoint) =>
            /\ HasEdge(initial_graph, ship'[s].previous_point, ship'[s].waypoint)
            /\ ship'[s].waypoint
                 \in SecondNodes(ship'[s].previous_point, ship'[s].destination)
       /\ (ship'[s].previous_point # ship[s].previous_point) =>
            /\ HasEdge(initial_graph, ship[s].previous_point, ship'[s].previous_point)
            /\ ship'[s].previous_point
                 \in SecondNodes(ship[s].previous_point, ship[s].destination)]_vars

\* C17 witness: the ship has reached a first planet that is not its
\* destination and set its waypoint anew, in a graph with a longer path from
\* where it started to the destination than the one it took, while a road
\* has a modifier other than 1.0.
C17_Rerouted ==
  \E s \in Ships :
    /\ ship[s].waypoint # None
    /\ ship[s].previous_point # items[1].x.a
    /\ ship[s].x = At(ship[s].previous_point)
    /\ \E q \in PathsFrom(initial_graph, <<items[1].x.a>>, ship[s].destination) :
         PathLength(initial_graph, q) > PathLength(initial_graph,
           dijkstra_path(initial_graph, items[1].x.a, ship[s].destination))
    /\ Slow(speed_modificator)

\* ------------------------------------------- SpecNet: the road network
\* The variables of the simulation that SpecNet, SpecSelect and SpecMailbox
\* leave alone.
SimIdle ==
  /\ steps = 0 /\ stepped = {} /\ raised = "" /\ items = <<>>
  /\ computed_items_nb = 0 /\ uuid_clock = 0 /\ ship = <<>> /\ planet = <<>>
  /\ inflight = <<>> /\ carry_log = <<>>

NetIdle ==
  /\ initial_graph = EmptyGraph /\ current_graph = EmptyGraph
  /\ speed_modificator = <<>> /\ net_pc = "run" /\ net_pairs = <<>> /\ net_turns = 0
  /\ road_issue = {} /\ issue_count = 0

SelIdle == bids = <<>> /\ best_rank = None /\ answers = <<>>

BoxIdle ==
  /\ mutex = "" /\ recv_pc = "receive" /\ recv_msg = None /\ drain_pc = "acquire"
  /\ messages = <<>> /\ box = <<>> /\ arrived = 0 /\ drained = <<>>

\* The statements the double loop of lines 414-420 runs for n planets, in
\* order: <<i, None>> is add_node(planets[i]), <<i, j>> the draw for the pair.
RECURSIVE LoopFrom(_, _, _)
LoopFrom(i, j, n) ==
  IF i >= n THEN <<>>
  ELSE IF j = None THEN <<<<i, None>>>> \o LoopFrom(i, 0, n)
  ELSE IF j >= i THEN LoopFrom(i + 1, None, n)
  ELSE <<<<i, j>>>> \o LoopFrom(i, j + 1, n)

NetInit ==
  /\ \E n \in 1 .. MaxNetPlanets : net_pairs = LoopFrom(0, None, n)
  /\ net_pc = "loop"
  /\ net_turns = 0
  /\ initial_graph = EmptyGraph
  /\ current_graph = EmptyGraph
  /\ speed_modificator = <<>>
  /\ road_issue = {}
  /\ issue_count = 0
  /\ SimIdle /\ SelIdle /\ BoxIdle

NetKeep == UNCHANGED <<stepped, raised, items, computed_items_nb, uuid_clock, ship, planet,
                       inflight, carry_log, selVars, boxVars>>

\* Mutant of Disconnected: the while loop stops at two components.
Disconnected_two(G) == Len(connected_components(G)) > 2

\* The while loop of line 422 goes on.
Disconnected(G) == Len(connected_components(G)) # 1

\* line 415
NetAddNode ==
  /\ net_pc = "loop" /\ net_pairs # <<>> /\ Head(net_pairs)[2] = None
  /\ initial_graph' = add_node(initial_graph, Head(net_pairs)[1])
  /\ net_pairs' = Tail(net_pairs)
  /\ UNCHANGED <<steps, current_graph, speed_modificator, net_pc, road_issue, issue_count>>
  /\ UNCHANGED net_turns
  /\ NetKeep

\* lines 418-420, the draw below road_branching_factor
NetAddEdge ==
  /\ net_pc = "loop" /\ net_pairs # <<>> /\ Head(net_pairs)[2] # None
  /\ LET i == Head(net_pairs)[1]
         j == Head(net_pairs)[2]
     IN initial_graph' = add_edge(initial_graph, i, j, PlanetDistance(i, j))
  /\ net_pairs' = Tail(net_pairs)
  /\ UNCHANGED <<steps, current_graph, speed_modificator, net_pc, road_issue, issue_count>>
  /\ UNCHANGED net_turns
  /\ NetKeep

\* line 418, the draw not below it
NetSkipEdge ==
  /\ net_pc = "loop" /\ net_pairs # <<>> /\ Head(net_pairs)[2] # None
  /\ net_pairs' = Tail(net_pairs)
  /\ UNCHANGED <<steps, initial_graph, current_graph, speed_modificator, net_pc,
                 road_issue, issue_count>>
  /\ UNCHANGED net_turns
  /\ NetKeep

\* the double loop is over
NetLoopEnd ==
  /\ net_pc = "loop" /\ net_pairs = <<>>
  /\ net_pc' = "reconnect"
  /\ UNCHANGED <<steps, initial_graph, current_graph, speed_modificator, net_pairs,
                 road_issue, issue_count>>
  /\ UNCHANGED net_turns
  /\ NetKeep

\* lines 422-426: one turn of the while loop
NetReconnect ==
  /\ net_pc = "reconnect"
  /\ Disconnected(initial_graph)
  /\ net_turns' = net_turns + 1
  /\ \E first_element \in connected_components(initial_graph)[1] :
       \E second_element \in connected_components(initial_graph)[2] :
         initial_graph' = add_edge(initial_graph, first_element, second_element,
                                   PlanetDistance(first_element, second_element))
  /\ UNCHANGED <<steps, current_graph, speed_modificator, net_pc, net_pairs, road_issue,
                 issue_count>>
  /\ NetKeep

\* lines 422 and 427-431: the while loop ends, the edges are copied
NetFinish ==
  /\ net_pc = "reconnect"
  /\ ~Disconnected(initial_graph)
  /\ current_graph' = CopyEdges(initial_graph)
  /\ speed_modificator' = InitialSpeeds(initial_graph)
  /\ net_pc' = "run"
  /\ UNCHANGED <<steps, initial_graph, net_pairs, road_issue, issue_count>>
  /\ UNCHANGED net_turns
  /\ NetKeep

\* SpaceRoadNetwork.step, called by the schedule
NetStep ==
  /\ net_pc = "run"
  /\ steps < MaxNetSteps
  /\ \E issue \in SUBSET DOMAIN current_graph.edges :
       /\ issue_count + Cardinality(issue) <= MaxIssues
       /\ issue_count' = issue_count + Cardinality(issue)
       /\ road_issue' = issue
       /\ \E new_state \in [issue -> Range(road_states)] : NetworkStep(issue, new_state)
  /\ steps' = steps + 1
  /\ UNCHANGED <<initial_graph, current_graph, net_pc, net_pairs>>
  /\ UNCHANGED net_turns
  /\ NetKeep

NetNext ==
  \/ NetAddNode
  \/ NetAddEdge
  \/ NetSkipEdge
  \/ NetLoopEnd
  \/ NetReconnect
  \/ NetFinish
  \/ NetStep

SpecNet == NetInit /\ [][NetNext]_vars

\* C8: for every number of planets from 1 on and every outcome of the draws
\* of the double loop, the while loop of SpaceRoadNetwork.__init__ ends: each
\* of its turns leaves one component less, so it runs fewer turns than there
\* are planets, and when no turn is left it is because one component is
\* left.  The constructor leaves initial_graph with exactly one connected
\* component holding every planet, and current_graph with the same edges;
\* SpaceRoadNetwork.step changes the nodes and edges of neither graph.
C8_Connected ==
  /\ [](net_pc = "reconnect" =>
         /\ Len(connected_components(initial_graph)) >= 1
         /\ net_turns + Len(connected_components(initial_graph))
              <= Len(initial_graph.nodes))
  /\ [][(net_turns' # net_turns) =>
          (Len(connected_components(initial_graph')) =
             Len(connected_components(initial_graph)) - 1)]_vars
  /\ [](net_pc = "run" =>
         /\ Len(connected_components(initial_graph)) = 1
         /\ connected_components(initial_graph)[1] = Range(initial_graph.nodes)
         /\ current_graph.edges = initial_graph.edges)
  /\ [][(net_pc = "run") =>
          (initial_graph' = initial_graph /\ current_graph' = current_graph)]_vars

\* C8 witness: the draws left four planets in three components or more, the
\* while loop ran twice or more, and a step has resampled a road since.
C8_Reconnected ==
  /\ net_pc = "run"
  /\ net_turns >= 2
  /\ Len(initial_graph.nodes) = MaxNetPlanets
  /\ steps >= 1
  /\ road_issue # {}
  /\ Len(connected_components(current_graph)) = 1

\* C19: once SpaceRoadNetwork.__init__ has run, speed_modificator has an
\* entry for each direction of each road of the graph and for nothing else,
\* the two entries of a road are equal and are one of 0.0, 0.5 and 1.0, and
\* before the first SpaceRoadNetwork.step all of them are 1.0.
C19_Symmetric ==
  (net_pc = "run") =>
    /\ DOMAIN speed_modificator =
         UNION {{<<k[1], k[2]>>, <<k[2], k[1]>>} : k \in DOMAIN current_graph.edges}
    /\ \A k \in DOMAIN current_graph.edges :
         /\ speed_modificator[<<k[1], k[2]>>] = speed_modificator[<<k[2], k[1]>>]
         /\ speed_modificator[<<k[1], k[2]>>] \in Range(road_states)
         /\ (steps = 0) => (speed_modificator[<<k[1], k[2]>>] = 10)

\* C19 witness: after a step of the road network one road is at 0.5 or 0.0
\* and another one still at 1.0.
C19_Resampled ==
  /\ net_pc = "run"
  /\ steps >= 1
  /\ \E k \in DOMAIN current_graph.edges : \E l \in DOMAIN current_graph.edges :
       /\ speed_modificator[<<k[2], k[1]>>] # 10
       /\ speed_modificator[<<l[1], l[2]>>] = 10

\* C9: every SpaceRoadNetwork.step gives each road it resamples a modifier
\* other than the one the road had before the step.
C9_Changed ==
  [][\A road \in road_issue' :
       (steps' # steps) => (speed_modificator'[road] # speed_modificator[road])]_vars

\* --------------------------------------- SpecSelect: the winner selection
\* The utilities of the bids (tenths), 0 included: a ship whose preferences
\* are all 0.0 bids 0.
BidUtilities == {0, 4, 7, 9}

SelItem == Item(At(0), 5, 5, 5, 1)

\* The proposals of ships 0, 1, ... in the order of arrival, with utilities us.
Proposals(us) ==
  [i \in DOMAIN us |->
     Message(PlanetAgent(0), ShipAgent(i - 1), "proposal", SelItem, 1, us[i], 0)]

SelInit ==
  /\ \E n \in 1 .. MaxBids : \E us \in [1 .. n -> BidUtilities] : bids = Proposals(us)
  /\ best_rank = None
  /\ answers = <<>>
  /\ SimIdle /\ NetIdle /\ BoxIdle

\* PlanetManager.step, lines 316-337, for a waiting item whose proposals are bids.
SelResolve ==
  /\ best_rank = None
  /\ best_rank' = BestRank(Utilities(bids))
  /\ answers' = Answers(0, SelItem, bids, BestRank(Utilities(bids)), WAITING_TIME + 1)
  /\ UNCHANGED <<bids, simVars, netVars, boxVars>>

SelNext == SelResolve

SpecSelect == SelInit /\ [][SelNext]_vars

\* C3: when a round with proposals is resolved, accept_proposal goes to the
\* sender of a proposal of the greatest utility, the first of them in the
\* order of arrival, and reject_proposal to the sender of every other one;
\* for the bids 0.7, 0.9, 0.4 of ships 0, 1, 2 ship 1 is accepted and ships
\* 0 and 2 are rejected.
C3_BestBid ==
  best_rank # None =>
    LET us == Utilities(bids)
        win == best_rank + 1
    IN /\ win \in DOMAIN bids
       /\ \A i \in DOMAIN us : us[i] <= us[win]
       /\ \A i \in 1 .. win - 1 : us[i] < us[win]
       /\ Len(answers) = Len(bids)
       /\ \A j \in DOMAIN bids :
            /\ answers[j].to = bids[j].sender
            /\ answers[j].performative =
                 IF j = win THEN "accept_proposal" ELSE "reject_proposal"
       /\ us = <<7, 9, 4>> =>
            /\ answers[2].to = ShipAgent(1) /\ answers[2].performative = "accept_proposal"
            /\ answers[1].to = ShipAgent(0) /\ answers[1].performative = "reject_proposal"
            /\ answers[3].to = ShipAgent(2) /\ answers[3].performative = "reject_proposal"

\* C3 witness: the round with the bids 0.7, 0.9, 0.4 has been resolved.
C3_Example ==
  /\ Utilities(bids) = <<7, 9, 4>>
  /\ best_rank = 1
  /\ Len(answers) = 3
  /\ answers[2].performative = "accept_proposal"

\* ----------------------------------------------- SpecMailbox: the mutex
\* One communicator: RecvBehav.run in the communicator's thread, the drain
\* of Ship.step / PlanetManager.step (lines 206-211, 295-300) in the thread
\* of the simulation.  Messages are numbered in the order receive() returns
\* them.
BoxInit ==
  /\ mutex = ""
  /\ recv_pc = "receive"
  /\ recv_msg = None
  /\ drain_pc = "acquire"
  /\ messages = <<>>
  /\ box = <<>>
  /\ arrived = 0
  /\ drained = <<>>
  /\ SimIdle /\ NetIdle /\ SelIdle

BoxKeep == UNCHANGED <<simVars, netVars, selVars>>

\* Mutant of Acquire: the lock is taken whether it is held or not.
Acquire_held(t) == mutex' = t

\* Lock.acquire() by thread t: blocks while the lock is held.
Acquire(t) == mutex = "" /\ mutex' = t

\* Lock.release()
Release == mutex' = ""

\* line 130: msg = await self.receive(), a message has come
RecvReceive ==
  /\ recv_pc = "receive"
  /\ arrived < MaxMsgs
  /\ arrived' = arrived + 1
  /\ recv_msg' = arrived + 1
  /\ recv_pc' = "acquire"
  /\ UNCHANGED <<mutex, drain_pc, messages, box, drained>>
  /\ BoxKeep

\* line 132
RecvAcquire ==
  /\ recv_pc = "acquire"
  /\ Acquire("RecvBehav")
  /\ recv_pc' = "append"
  /\ UNCHANGED <<recv_msg, drain_pc, messages, box, arrived, drained>>
  /\ BoxKeep

\* line 134
RecvAppend ==
  /\ recv_pc = "append"
  /\ box' = Append(box, recv_msg)
  /\ recv_pc' = "release"
  /\ UNCHANGED <<mutex, recv_msg, drain_pc, messages, arrived, drained>>
  /\ BoxKeep

\* line 137
RecvRelease ==
  /\ recv_pc = "release"
  /\ Release
  /\ recv_pc' = "receive"
  /\ UNCHANGED <<recv_msg, drain_pc, messages, box, arrived, drained>>
  /\ BoxKeep

\* line 206 (295)
DrainAcquire ==
  /\ drain_pc = "acquire"
  /\ Len(drained) < MaxDrains
  /\ Acquire("step")
  /\ drain_pc' = "copy"
  /\ UNCHANGED <<recv_pc, recv_msg, messages, box, arrived, drained>>
  /\ BoxKeep

\* line 208 (297)
DrainCopy ==
  /\ drain_pc = "copy"
  /\ messages' = box
  /\ drain_pc' = "clear"
  /\ UNCHANGED <<mutex, recv_pc, recv_msg, box, arrived, drained>>
  /\ BoxKeep

\* line 209 (298)
DrainClear ==
  /\ drain_pc = "clear"
  /\ box' = <<>>
  /\ drain_pc' = "release"
  /\ UNCHANGED <<mutex, recv_pc, recv_msg, messages, arrived, drained>>
  /\ BoxKeep

\* line 211 (300); the loop over messages follows: the drain has returned them
DrainRelease ==
  /\ drain_pc = "release"
  /\ Release
  /\ drained' = Append(drained, messages)
  /\ drain_pc' = "acquire"
  /\ UNCHANGED <<recv_pc, recv_msg, messages, box, arrived>>
  /\ BoxKeep

BoxNext ==
  \/ RecvReceive
  \/ RecvAcquire
  \/ RecvAppend
  \/ RecvRelease
  \/ DrainAcquire
  \/ DrainCopy
  \/ DrainClear
  \/ DrainRelease

SpecMailbox == BoxInit /\ [][BoxNext]_vars

\* What the drains have returned so far, in order; the drain at line 211
\* (300) is about to return messages.
RECURSIVE Concat(_)
Concat(ss) == IF ss = <<>> THEN <<>> ELSE Head(ss) \o Concat(Tail(ss))

Returned == Concat(drained) \o (IF drain_pc = "release" THEN messages ELSE <<>>)

\* The number of messages RecvBehav.run has appended to msg_box.
Appended == IF recv_pc \in {"acquire", "append"} THEN arrived - 1 ELSE arrived

\* C6: in every interleaving of RecvBehav.run with the drains of step, the
\* messages the drains have returned followed by those in msg_box are the
\* messages appended so far, each once and in the order of arrival: none is
\* returned by two drains, none appended before, during or after a drain is
\* lost.
C6_ExactlyOnce == Returned \o box = [n \in 1 .. Appended |-> n]

\* C6 witness: a drain has returned a message, the next drain holds another
\* one and the mutex, and RecvBehav.run waits for the mutex with a third.
C6_Interleaved ==
  /\ drained # <<>>
  /\ drained[1] # <<>>
  /\ drain_pc = "release"
  /\ messages # <<>>
  /\ recv_pc = "acquire"
  /\ mutex = "step"

====
